---- MODULE Spec2Model ----
(***************************************************************************)
(* Peer synchronisation of memo-sticky-extension: the P2PSyncManager       *)
(* (Sync Coordinator), the PeerJS P2PClient (Transport), the URL helpers   *)
(* and the MemoManager code that drives and consumes them.                  *)
(***************************************************************************)
EXTENDS Naturals, Integers, Sequences, FiniteSets, TLC

\* ------------------------------------------------------------------ URLs
\* A URL string is a sequence of tokens; two strings are equal iff their
\* token sequences are equal.
Origin == "https://a.com"
PathTokens == {"/", "/x", "/z"}
QueryTokens == {"?y=1", "?y=2"}

UrlX == <<Origin, "/x">>
UrlX1 == <<Origin, "/x", "?y=1">>
UrlX2 == <<Origin, "/x", "?y=2">>
UrlZ == <<Origin, "/z">>
UrlRoot == <<Origin>>
UrlRootSlash == <<Origin, "/">>
UrlRelative == <<"/x">>

\* new URL(url) throws unless the string starts with a scheme and host.
UrlParses(url) == Len(url) >= 1 /\ url[1] = Origin

\* URL.pathname: the path tokens after the origin, "/" when there are none.
Pathname(url) ==
  LET p == SelectSeq(Tail(url), LAMBDA t : t \in PathTokens)
  IN IF p = <<>> THEN <<"/">> ELSE p

normalizeUrl(url, removeQuery) ==
  IF ~UrlParses(url) THEN url
  ELSE IF removeQuery THEN <<url[1]>> \o Pathname(url)
  ELSE url

\* ------------------------------------------------------------ identities
LocalId == "memo-bbb"
RemotePeers == {"memo-aaa", "memo-ccc"}
\* every identity a connection can be made with
AllPeers == RemotePeers \cup {"memo-ddd"}
NoOwner == "none"
ForgedOwner == "memo-zzz"

\* ------------------------------------------------------------- variables
VARIABLES
  settings,      \* P2PSyncManager.settings: NullSettings or Loaded(removeQueryParams)
  currentUrl,    \* P2PSyncManager.currentUrl (window.location.href at construction)
  listening,     \* MemoManager.setupP2PListeners has run
  sharedMemos,   \* MemoManager.sharedMemos: memo id -> shared memo
  lastMsg,       \* the last message handed to the onData callback, its sender, and
                 \* the settings and listener registration it was handled under
  lastEvents,    \* the CustomEvents that callback dispatched, in order
  sharedBefore,  \* sharedMemos as it was when lastMsg arrived
  peer,          \* P2PClient.peer: "connecting", "open" or "error"
  conns,         \* every DataConnection created so far, in creation order
  connections,   \* P2PClient.connections: peer id -> index into conns, 0 = no entry
  initPc,        \* where P2PSyncManager.initialize is
  pendingInitialSyncPeers, \* the Set of that name, in insertion order
  flushIdx,      \* position of initialize's flush loop in that Set
  driver,        \* where MemoManager.initializeP2PSync is
  memoStore,     \* chrome.storage.local memos: storage key -> memos
  sentCount,     \* per peer: sync:initial messages handed to an open connection (history)
  lastSent,      \* per peer: the last sync:initial handed over (history)
  tie,           \* two installations that list each other, each running its peer loop
  mm,            \* MemoManager: ids in its memos map, settings.sharingEnabled, settings
  outCall,       \* the outbound mutation call in progress or last completed
  relay,         \* the relay transport (WebSocket P2PClient) and its last sendTo
  um,            \* UserManager: the stored id, the calls of each context, the id
                 \* initializeP2PSync started the coordinator with
  server,        \* the relay server: its clients map and the sockets it has seen
  remote,        \* the installation memo-aaa at the far end of the link: the messages
                 \* on their way to it, its settings, listeners, shared memos, events
  sm,            \* the StorageManager calls in progress, each with what it read
  db             \* MemoManager.debouncedSaveMemo: its timer, lastArgs, and the saves
                 \* requested and performed so far

inboundVars == <<listening, sharedMemos, lastMsg, lastEvents, sharedBefore>>
linkVars == <<peer, conns, connections, initPc, pendingInitialSyncPeers, flushIdx,
              driver, memoStore, sentCount, lastSent>>
extVars == <<mm, outCall, relay>>
sideVars == <<um, server, remote, sm, db>>
vars == <<settings, currentUrl, inboundVars, linkVars, tie, sideVars, extVars>>

\* settings is null until getSettings resolves.
NullSettings == [loaded |-> FALSE, removeQueryParams |-> FALSE]
Loaded(rq) == [loaded |-> TRUE, removeQueryParams |-> rq]
EmptyShared == [i \in {} |-> NoOwner]

\* ------------------------------------------------- inbound message space
MemoIds == {"m1"}
Contents == {"a", "b"}
CurrentUrls == {UrlX1}
EntityUrls == {UrlX1, UrlX2, UrlX, UrlZ}
ScopeUrls == {UrlX1, UrlZ}

MemoPayloads ==
  [id : MemoIds, url : EntityUrls, content : Contents, ownerId : {NoOwner, ForgedOwner}]
HighlightPayloads == [id : {"h1"}, url : ScopeUrls, ownerId : {NoOwner, ForgedOwner}]
DrawingPayloads == [id : {"d1"}, url : ScopeUrls, ownerId : {NoOwner, ForgedOwner}]

\* Entities as a peer lists them in sync:initial (already stamped by that peer).
BatchMemos == {m \in MemoPayloads : m.content = "a" /\ m.ownerId = ForgedOwner /\ m.url \in ScopeUrls}
BatchHighlights == {h \in HighlightPayloads : h.ownerId = ForgedOwner /\ h.url = UrlX1}
BatchDrawings == {d \in DrawingPayloads : d.ownerId = ForgedOwner /\ d.url = UrlZ}

MaxBatch == 2

SeqsUpTo(S, n) == UNION {[1..k -> S] : k \in 0..n}

InitialSyncData ==
  [url : ScopeUrls, memos : SeqsUpTo(BatchMemos, MaxBatch),
   highlights : SeqsUpTo(BatchHighlights, 1), drawings : SeqsUpTo(BatchDrawings, 1)]

InboundMsgs ==
       [type : {"memo:create", "memo:update"}, data : MemoPayloads]
  \cup [type : {"memo:delete"}, data : [memoId : MemoIds, url : ScopeUrls]]
  \cup [type : {"highlight:create"}, data : HighlightPayloads]
  \cup [type : {"highlight:delete"}, data : [highlightId : {"h1"}, url : ScopeUrls]]
  \cup [type : {"drawing:create"}, data : DrawingPayloads]
  \cup [type : {"drawing:delete"}, data : [drawingId : {"d1"}, url : ScopeUrls]]
  \cup [type : {"sync:initial"}, data : InitialSyncData]
  \cup [type : {"memo:archive"}, data : [id : MemoIds]]

NoMsg == [type |-> "none"]
NoneReceived == [msg |-> NoMsg, from |-> "none", settings |-> NullSettings, listening |-> FALSE]

\* ------------------------------------------------ P2PSyncManager, inbound
\* The URL comparison each of handleInitialSync, handleMemoCreate and
\* handleMemoUpdate makes: with settings loaded, the one form the receiver's
\* removeQueryParams selects; with settings not yet loaded, either form.
urlsMatch_BothForms(s, url, cur) ==
  \/ normalizeUrl(url, FALSE) = normalizeUrl(cur, FALSE)
  \/ normalizeUrl(url, TRUE) = normalizeUrl(cur, TRUE)

urlsMatch(s, url, cur) ==
  IF s.loaded
  THEN normalizeUrl(url, s.removeQueryParams) = normalizeUrl(cur, s.removeQueryParams)
  ELSE \/ normalizeUrl(url, FALSE) = normalizeUrl(cur, FALSE)
       \/ normalizeUrl(url, TRUE) = normalizeUrl(cur, TRUE)

Event(t, d) == [type |-> t, detail |-> d]

handleInitialSync(s, cur, data) ==
  IF urlsMatch(s, data.url, cur)
  THEN <<Event("p2p:initial-sync",
               [memos |-> data.memos, highlights |-> data.highlights, drawings |-> data.drawings])>>
  ELSE <<>>

handleMemoCreate(s, cur, memo, peerId) ==
  IF urlsMatch(s, memo.url, cur)
  THEN <<Event("p2p:memo-created", [memo EXCEPT !.ownerId = peerId])>>
  ELSE <<>>

handleMemoUpdate(s, cur, memo, peerId) ==
  IF urlsMatch(s, memo.url, cur)
  THEN <<Event("p2p:memo-updated", [memo EXCEPT !.ownerId = peerId])>>
  ELSE <<>>

handleMemoDelete_Scoped(data) ==
  IF data.url = currentUrl THEN <<Event("p2p:memo-deleted", data)>> ELSE <<>>

handleMemoDelete(data) == <<Event("p2p:memo-deleted", data)>>

handleHighlightCreate(highlight, peerId) ==
  <<Event("p2p:highlight-created", [highlight EXCEPT !.ownerId = peerId])>>

handleHighlightDelete(data) == <<Event("p2p:highlight-deleted", data)>>

handleDrawingCreate(drawing, peerId) ==
  <<Event("p2p:drawing-created", [drawing EXCEPT !.ownerId = peerId])>>

handleDrawingDelete(data) == <<Event("p2p:drawing-deleted", data)>>

\* The onData callback: the events it dispatches for one message.
onData(s, cur, msg, peerId) ==
  CASE msg.type = "sync:initial" -> handleInitialSync(s, cur, msg.data)
    [] msg.type = "memo:create" -> handleMemoCreate(s, cur, msg.data, peerId)
    [] msg.type = "memo:update" -> handleMemoUpdate(s, cur, msg.data, peerId)
    [] msg.type = "memo:delete" -> handleMemoDelete(msg.data)
    [] msg.type = "highlight:create" -> handleHighlightCreate(msg.data, peerId)
    [] msg.type = "highlight:delete" -> handleHighlightDelete(msg.data)
    [] msg.type = "drawing:create" -> handleDrawingCreate(msg.data, peerId)
    [] msg.type = "drawing:delete" -> handleDrawingDelete(msg.data)
    [] OTHER -> <<>>

\* ------------------------------------------------- MemoManager, listeners
Without(shared, id) == [i \in DOMAIN shared \ {id} |-> shared[i]]

createSharedMemoComponent_Overwrite(shared, memo) ==
  [i \in DOMAIN shared \cup {memo.id} |-> IF i = memo.id THEN memo ELSE shared[i]]

createSharedMemoComponent(shared, memo) ==
  IF memo.id \in DOMAIN shared THEN shared
  ELSE [i \in DOMAIN shared \cup {memo.id} |-> IF i = memo.id THEN memo ELSE shared[i]]

updateSharedMemoComponent_KnownOnly(shared, memo) ==
  IF memo.id \in DOMAIN shared
  THEN createSharedMemoComponent(Without(shared, memo.id), memo)
  ELSE shared

updateSharedMemoComponent(shared, memo) ==
  IF memo.id \in DOMAIN shared
  THEN createSharedMemoComponent(Without(shared, memo.id), memo)
  ELSE createSharedMemoComponent(shared, memo)

removeSharedMemoComponent(shared, memoId) ==
  IF memoId \in DOMAIN shared THEN Without(shared, memoId) ELSE shared

RECURSIVE CreateAll(_, _)
CreateAll(shared, memos) ==
  IF memos = <<>> THEN shared
  ELSE CreateAll(createSharedMemoComponent(shared, Head(memos)), Tail(memos))

\* The window listeners setupP2PListeners registers, applied to one event.
P2PListener(shared, ev) ==
  CASE ev.type = "p2p:initial-sync" -> CreateAll(shared, ev.detail.memos)
    [] ev.type = "p2p:memo-created" -> createSharedMemoComponent(shared, ev.detail)
    [] ev.type = "p2p:memo-updated" -> updateSharedMemoComponent(shared, ev.detail)
    [] ev.type = "p2p:memo-deleted" -> removeSharedMemoComponent(shared, ev.detail.memoId)
    [] OTHER -> shared

storageAfterInbound_Persist(store, evs) ==
  IF evs # <<>> /\ evs[1].type \in {"p2p:memo-created", "p2p:memo-updated"}
  THEN [store EXCEPT ![UrlX1] = Append(@, evs[1].detail)]
  ELSE store

\* Local storage after the handlers and listeners of an inbound message have
\* run: none of them calls StorageManager.
storageAfterInbound(store, evs) == store

RECURSIVE Dispatch(_, _)
Dispatch(shared, evs) ==
  IF evs = <<>> THEN shared ELSE Dispatch(P2PListener(shared, Head(evs)), Tail(evs))

\* ------------------------------------------------------- identity order
\* UTF-16 code units of the identities of the model ("memo-" is common to
\* all of them and left out).
Units(id) ==
  CASE id = "memo-aaa" -> <<97, 97, 97>>
    [] id = "memo-bbb" -> <<98, 98, 98>>
    [] id = "memo-ccc" -> <<99, 99, 99>>
    [] id = "memo-ddd" -> <<100, 100, 100>>
    [] id = "memo-9f" -> <<57, 102>>
    [] id = "memo-a0" -> <<97, 48>>
    [] id = "memo-a" -> <<97>>
    [] OTHER -> <<>>

\* JavaScript's a < b on strings: the first differing code unit decides, and
\* a proper prefix is smaller.
RECURSIVE LexLess(_, _)
LexLess(a, b) ==
  IF b = <<>> THEN FALSE
  ELSE IF a = <<>> THEN TRUE
  ELSE IF Head(a) # Head(b) THEN Head(a) < Head(b)
  ELSE LexLess(Tail(a), Tail(b))

StrLess_ByLength(a, b) == Len(Units(a)) < Len(Units(b))

\* userId < peerId
StrLess(a, b) == LexLess(Units(a), Units(b))

\* --------------------------------------------------------------- storage
StoreKeys == {UrlX1, UrlX}
LocalMemo(id, url) == [id |-> id, url |-> url, content |-> "a", ownerId |-> NoOwner]
EmptyStore == [k \in StoreKeys |-> <<>>]
StoreOptions ==
  { EmptyStore,
    [EmptyStore EXCEPT ![UrlX] = <<LocalMemo("l1", UrlX1)>>],
    [EmptyStore EXCEPT ![UrlX1] = <<LocalMemo("l1", UrlX1)>>, ![UrlX] = <<LocalMemo("l2", UrlX)>>] }

\* StorageManager.getMemosForUrl: the memos under the main key, else those
\* under the other key, which it then moves to the main key.
getMemosForUrl(store, url, s) ==
  LET removeQuery == s.removeQueryParams
      normalizedUrl == normalizeUrl(url, removeQuery)
      fallbackUrl == normalizeUrl(url, ~removeQuery)
  IN IF store[normalizedUrl] # <<>>
     THEN [memos |-> store[normalizedUrl], store |-> store]
     ELSE IF store[fallbackUrl] # <<>>
     THEN [memos |-> store[fallbackUrl],
           store |-> [store EXCEPT ![normalizedUrl] = store[fallbackUrl], ![fallbackUrl] = <<>>]]
     ELSE [memos |-> <<>>, store |-> store]

\* The highlights and drawings this installation has stored, and their
\* getters (the StorageManager of this source tree has none).
HighlightStore ==
  [k \in StoreKeys |-> IF k = UrlX1 THEN <<[id |-> "lh1", url |-> UrlX1, ownerId |-> NoOwner]>> ELSE <<>>]
DrawingStore ==
  [k \in StoreKeys |-> IF k = UrlX THEN <<[id |-> "ld1", url |-> UrlX1, ownerId |-> NoOwner]>> ELSE <<>>]
getHighlightsForUrl(url, s) == HighlightStore[normalizeUrl(url, s.removeQueryParams)]
getDrawingsForUrl(url, s) == DrawingStore[normalizeUrl(url, s.removeQueryParams)]

\* ------------------------------------------------- P2PClient (PeerJS)
MaxConns == 3

NoConn == 0
\* A DataConnection: st is "connecting", "open" or "closed"; promise is the
\* state of the connect() promise that created it ("none" for an incoming
\* one); obs is what became of the sendInitialSync its 'open' observation
\* started: "none", "buffered", "reading", "sent" or "dropped".
Conn(p, dir, promise) ==
  [peer |-> p, dir |-> dir, st |-> "connecting", promise |-> promise, obs |-> "none"]

\* connections.has(peerId)
Has(cs, p) == cs[p] # NoConn

\* sendTo: the message is handed over iff the map holds an open connection.
sendTo(cs, all, p) == Has(cs, p) /\ all[cs[p]].st = "open"

\* --------------------------------------- P2PSyncManager, initial sync
\* entities.map(e => ({ ...e, ownerId: this.userId }))
stampOwner(entities) == [i \in DOMAIN entities |-> [entities[i] EXCEPT !.ownerId = LocalId]]

initialSyncMessage(url, memos, highlights, drawings) ==
  [type |-> "sync:initial",
   data |-> [url |-> url, memos |-> stampOwner(memos),
             highlights |-> stampOwner(highlights), drawings |-> stampOwner(drawings)]]

\* The part of sendInitialSync after its settings check: the three storage
\* reads, then sendTo. What it leaves in storage and in the send history.
SendInitialSyncAfterReads(p) ==
  LET r == getMemosForUrl(memoStore, currentUrl, settings)
      hs == getHighlightsForUrl(currentUrl, settings)
      ds == getDrawingsForUrl(currentUrl, settings)
      msg == initialSyncMessage(currentUrl, r.memos, hs, ds)
  IN /\ memoStore' = r.store
     /\ IF sendTo(connections, conns, p)
        THEN /\ sentCount' = [sentCount EXCEPT ![p] = @ + 1]
             /\ lastSent' = [lastSent EXCEPT ![p] = msg]
        ELSE UNCHANGED <<sentCount, lastSent>>

InSeq(q, x) == \E i \in DOMAIN q : q[i] = x

\* this.pendingInitialSyncPeers.add(peerId)
SetAdd(q, x) == IF InSeq(q, x) THEN q ELSE Append(q, x)

\* --------------------------------------------- MemoManager.initializeP2PSync
\* const sharedPeers = this.settings.sharedPeers || []
DefaultPeers == <<"memo-aaa", "memo-ccc">>
SharedPeers == mm.sharedPeers

Driver(stage, idx, retry, conn) == [stage |-> stage, idx |-> idx, retry |-> retry, conn |-> conn]

\* The catch blocks around connectToPeer: wait 5 s and retry once, then go on
\* to the next peer.
AfterConnectFailure_Abort(d) == Driver("done", d.idx, FALSE, NoConn)

AfterConnectFailure(d) ==
  IF d.retry THEN Driver("loop", d.idx + 1, FALSE, NoConn)
  ELSE Driver("waiting", d.idx, FALSE, NoConn)

TieIdle == [a |-> "none", b |-> "none"]

\* ------------------------------------------- outbound calls, relay: idle
NoCall ==
  [n |-> 0, api |-> "none", by |-> "none", memo |-> NoMsg, write |-> "none",
   stage |-> "idle", linked |-> {}, targets |-> {}, handed |-> {}]
NoRelayCall ==
  [n |-> 0, api |-> "none", to |-> "none", returned |-> "none", handed |-> FALSE,
   torn |-> FALSE]
RelayIdle ==
  [ws |-> "null", promise |-> "none", timer |-> FALSE, intentional |-> FALSE,
   torn |-> FALSE, call |-> NoRelayCall,
   dying |-> "none", registered |-> FALSE, observed |-> 0, drops |-> 0, timers |-> 0]

\* ------------------- identity, relay server, far installation: idle
\* a user id is "memo-" and the first group of a v4 UUID; uuid 0: no id
UserId(n) == [uuid |-> n]
NoId == UserId(0)
Ctx == {"page", "options"}
NoIdCall == [op |-> "none", pc |-> "idle", id |-> NoId, ret |-> NoId, epoch |-> 0, faulted |-> FALSE]
UmIdle ==
  [stored |-> NoId, fresh |-> 0, resets |-> 0, cleared |-> FALSE, lastReset |-> NoId,
   calls |-> [c \in Ctx |-> NoIdCall], boot |-> [id |-> NoId, faulted |-> FALSE]]
\* the identities that connect to the relay server
Users == RemotePeers \cup {LocalId}
NoSock == 0
NoForward == [from |-> NoSock, msg |-> NoMsg, to |-> {}]
ServerIdle ==
  [clients |-> [u \in Users |-> NoSock], socks |-> <<>>, sent |-> 0, last |-> NoForward]
RemoteIdle ==
  [queue |-> <<>>, settings |-> NullSettings, listening |-> FALSE,
   sharedMemos |-> EmptyShared, events |-> <<>>]

SmIdle == [calls |-> <<>>]
NoArgs == [id |-> "none"]
DbIdle ==
  [timeout |-> "null", timerArgs |-> NoArgs, lastArgs |-> NoArgs, edits |-> 0,
   unloaded |-> FALSE,
   requested |-> [i \in {"l1", "l2"} |-> "none"],
   saved |-> [i \in {"l1", "l2"} |-> "none"]]

InitSide ==
  /\ um = UmIdle
  /\ server = ServerIdle
  /\ remote = RemoteIdle
  /\ sm = SmIdle
  /\ db = DbIdle

InitExtWith(peers) ==
  /\ mm = [memos |-> {}, sharingEnabled |-> TRUE, settings |-> Loaded(FALSE),
           sharedPeers |-> peers]
  /\ outCall = NoCall
  /\ relay = RelayIdle
  /\ InitSide

InitExt == InitExtWith(DefaultPeers)


\* The link state once the transport is open and the data listeners are set.
InitLinkAt(pc, p) ==
  /\ peer = p
  /\ conns = <<>>
  /\ connections = [q \in AllPeers |-> NoConn]
  /\ initPc = pc
  /\ pendingInitialSyncPeers = <<>>
  /\ flushIdx = 0
  /\ driver = Driver("loop", 1, FALSE, NoConn)
  /\ sentCount = [q \in AllPeers |-> 0]
  /\ lastSent = [q \in AllPeers |-> NoMsg]

\* ------------------------------------------------------ inbound actions
InboundAt(store) ==
  /\ InitLinkAt("settings", "open")
  /\ memoStore = store
  /\ tie = TieIdle
  /\ InitExt
  /\ settings = NullSettings
  /\ currentUrl \in CurrentUrls
  /\ listening = FALSE
  /\ sharedMemos = EmptyShared
  /\ lastMsg = NoneReceived
  /\ lastEvents = <<>>
  /\ sharedBefore = EmptyShared

InitInbound == InboundAt(EmptyStore)

\* the same page with local memos already in storage
InitStored ==
  InboundAt([EmptyStore EXCEPT ![UrlX1] = <<LocalMemo("l1", UrlX1)>>,
                               ![UrlX] = <<LocalMemo("l2", UrlX)>>])

\* this.settings = await StorageManager.getSettings()
\* and, when no peer is buffered, the end of initialize.
SettingsLoaded ==
  /\ initPc = "settings"
  /\ \E rq \in BOOLEAN : settings' = Loaded(rq)
  /\ IF pendingInitialSyncPeers = <<>>
     THEN initPc' = "done" /\ flushIdx' = flushIdx
     ELSE initPc' = "flush" /\ flushIdx' = 1
  /\ UNCHANGED <<currentUrl, inboundVars, peer, conns, connections, pendingInitialSyncPeers,
                 driver, memoStore, sentCount, lastSent, tie, sideVars, extVars>>

\* MemoManager.init reaches setupP2PListeners
SetupP2PListeners ==
  /\ ~listening
  /\ listening' = TRUE
  /\ UNCHANGED <<settings, currentUrl, sharedMemos, lastMsg, lastEvents, sharedBefore, linkVars, tie, sideVars, extVars>>

\* A message arrives on a link from peerId: the onData callback runs, and the
\* window listeners run synchronously inside dispatchEvent.
Receive ==
  \E msg \in InboundMsgs, peerId \in RemotePeers :
    LET evs == onData(settings, currentUrl, msg, peerId) IN
    /\ lastMsg' = [msg |-> msg, from |-> peerId, settings |-> settings, listening |-> listening]
    /\ lastEvents' = evs
    /\ sharedBefore' = sharedMemos
    /\ sharedMemos' = IF listening THEN Dispatch(sharedMemos, evs) ELSE sharedMemos
    /\ memoStore' = storageAfterInbound(memoStore, evs)
    /\ UNCHANGED <<settings, currentUrl, listening, peer, conns, connections, initPc,
                   pendingInitialSyncPeers, flushIdx, driver, sentCount, lastSent, tie, sideVars, extVars>>

NextInbound == SettingsLoaded \/ SetupP2PListeners \/ Receive

SpecInbound == InitInbound /\ [][NextInbound]_vars
SpecStored == InitStored /\ [][NextInbound]_vars

\* the same page with settings.sharedPeers naming memo-aaa only: memo-ccc is
\* a peer that dialled in (or another client of the relay) without being
\* configured
ListedPeers == <<"memo-aaa">>

InitUnlisted ==
  /\ InitLinkAt("settings", "open")
  /\ memoStore = EmptyStore
  /\ tie = TieIdle
  /\ InitExtWith(ListedPeers)
  /\ settings = NullSettings
  /\ currentUrl \in CurrentUrls
  /\ listening = FALSE
  /\ sharedMemos = EmptyShared
  /\ lastMsg = NoneReceived
  /\ lastEvents = <<>>
  /\ sharedBefore = EmptyShared

SpecUnlisted == InitUnlisted /\ [][NextInbound]_vars

\* --------------------------------------------------- malformed messages
\* data missing from the message (undefined), or an object with none of the
\* fields its kind needs.
Undefined == [shape |-> "undefined"]
Blank == [shape |-> "object"]
KnownKinds ==
  {"sync:initial", "memo:create", "memo:update", "memo:delete", "highlight:create",
   "highlight:delete", "drawing:create", "drawing:delete"}
MalformedMsgs == [type : KnownKinds, data : {Undefined, Blank}]
UnknownKindMsgs == [type : {"memo:archive", "ping"}, data : {Undefined, Blank}]

\* The onData callback on such a message. handleInitialSync destructures data
\* and reads memos.length, handleMemoCreate and handleMemoUpdate read memo.url:
\* on undefined these throw into onData's catch, and on an object without url
\* the comparison of normalizeUrl(undefined, ..) with the current URL fails.
\* The delete handlers dispatch data as it is, and the highlight and drawing
\* create handlers dispatch { ...data, ownerId: peerId }.
onDataMalformed(msg, peerId) ==
  CASE msg.type \in {"sync:initial", "memo:create", "memo:update"} -> <<>>
    [] msg.type = "memo:delete" -> <<Event("p2p:memo-deleted", msg.data)>>
    [] msg.type = "highlight:delete" -> <<Event("p2p:highlight-deleted", msg.data)>>
    [] msg.type = "drawing:delete" -> <<Event("p2p:drawing-deleted", msg.data)>>
    [] msg.type = "highlight:create" -> <<Event("p2p:highlight-created", [ownerId |-> peerId])>>
    [] msg.type = "drawing:create" -> <<Event("p2p:drawing-created", [ownerId |-> peerId])>>
    [] OTHER -> <<>>

\* Such a message arrives. Of the events it leads to, MemoManager listens to
\* p2p:memo-deleted only: on a null detail its listener throws inside
\* dispatchEvent, on an object without memoId it removes nothing.
ReceiveMalformed ==
  \E msg \in MalformedMsgs \cup UnknownKindMsgs, peerId \in RemotePeers :
    /\ lastMsg' = [msg |-> msg, from |-> peerId, settings |-> settings, listening |-> listening]
    /\ lastEvents' = onDataMalformed(msg, peerId)
    /\ sharedBefore' = sharedMemos
    /\ UNCHANGED <<settings, currentUrl, listening, sharedMemos, linkVars, tie, sideVars, extVars>>

NextFaulty == NextInbound \/ ReceiveMalformed

SpecFaulty == InitInbound /\ [][NextFaulty]_vars

\* ---------------------------------------------------------- link actions
Init ==
  /\ InitLinkAt("transport", "connecting")
  /\ memoStore \in StoreOptions
  /\ settings = NullSettings
  /\ currentUrl = UrlX1
  /\ listening = FALSE
  /\ sharedMemos = EmptyShared
  /\ lastMsg = NoneReceived
  /\ lastEvents = <<>>
  /\ sharedBefore = EmptyShared
  /\ tie = TieIdle
  /\ InitExt

\* peer.on('open'): setupListeners, and initialize goes on to
\* setupDataListeners and the settings read.
TransportOpen ==
  /\ initPc = "transport"
  /\ peer' = "open"
  /\ initPc' = "settings"
  /\ UNCHANGED <<settings, currentUrl, inboundVars, conns, connections, pendingInitialSyncPeers,
                 flushIdx, driver, memoStore, sentCount, lastSent, tie, sideVars, extVars>>

\* peer.on('error') before 'open': initialize rejects, initializeP2PSync
\* logs and returns.
TransportError ==
  /\ initPc = "transport"
  /\ peer' = "error"
  /\ initPc' = "failed"
  /\ driver' = Driver("done", driver.idx, FALSE, NoConn)
  /\ UNCHANGED <<settings, currentUrl, inboundVars, conns, connections, pendingInitialSyncPeers,
                 flushIdx, memoStore, sentCount, lastSent, tie, sideVars, extVars>>

\* One turn of initialize's flush loop: the awaited sendInitialSync of the
\* next buffered peer completes; after the last one the Set is cleared.
FlushStep ==
  /\ initPc = "flush"
  /\ LET p == pendingInitialSyncPeers[flushIdx]
         ok == sendTo(connections, conns, p)
         last == flushIdx = Len(pendingInitialSyncPeers)
     IN /\ SendInitialSyncAfterReads(p)
        /\ conns' = [c \in DOMAIN conns |->
                       IF conns[c].peer = p /\ conns[c].obs = "buffered"
                       THEN [conns[c] EXCEPT !.obs = IF ok THEN "sent" ELSE "dropped"]
                       ELSE conns[c]]
        /\ flushIdx' = IF last THEN 0 ELSE flushIdx + 1
        /\ pendingInitialSyncPeers' = IF last THEN <<>> ELSE pendingInitialSyncPeers
        /\ initPc' = IF last THEN "done" ELSE "flush"
  /\ UNCHANGED <<settings, currentUrl, inboundVars, peer, connections, driver, tie, sideVars, extVars>>

\* The peer loop of initializeP2PSync runs once initialize has resolved.
initializeResolved_Eager(pc) == pc # "failed"

\* await this.p2pSyncManager.initialize(...) has returned
initializeResolved(pc) == pc = "done"

DriverAt == driver.idx <= Len(SharedPeers)
DriverPeer == SharedPeers[driver.idx]

\* else branch: my id is larger, wait for the incoming connection.
DriverSkip ==
  /\ initializeResolved(initPc) /\ driver.stage = "loop" /\ DriverAt
  /\ ~StrLess(LocalId, DriverPeer)
  /\ driver' = Driver("loop", driver.idx + 1, FALSE, NoConn)
  /\ UNCHANGED <<settings, currentUrl, inboundVars, peer, conns, connections, initPc,
                 pendingInitialSyncPeers, flushIdx, memoStore, sentCount,
                 lastSent, tie, sideVars, extVars>>

\* connectToPeer(peerId), first call or the retry 5 s after a failure, up to
\* the end of P2PClient.connect's executor.
DriverConnect ==
  /\ initializeResolved(initPc) /\ driver.stage \in {"loop", "waiting"} /\ DriverAt
  /\ StrLess(LocalId, DriverPeer)
  /\ LET retry == driver.stage = "waiting" IN
     IF Has(connections, DriverPeer)
     THEN /\ driver' = Driver("syncing", driver.idx, retry, NoConn)
          /\ UNCHANGED conns
     ELSE /\ Len(conns) < MaxConns
          /\ conns' = Append(conns, Conn(DriverPeer, "out", "pending"))
          /\ driver' = Driver("connecting", driver.idx, retry, Len(conns) + 1)
  /\ UNCHANGED <<settings, currentUrl, inboundVars, peer, connections, initPc,
                 pendingInitialSyncPeers, flushIdx, memoStore, sentCount, lastSent, tie, sideVars, extVars>>

\* connectToPeer's own sendInitialSync completes; the loop moves on.
DriverSyncDone ==
  /\ driver.stage = "syncing"
  /\ SendInitialSyncAfterReads(DriverPeer)
  /\ driver' = Driver("loop", driver.idx + 1, FALSE, NoConn)
  /\ UNCHANGED <<settings, currentUrl, inboundVars, peer, conns, connections, initPc,
                 pendingInitialSyncPeers, flushIdx, tie, sideVars, extVars>>

DriverFinish ==
  /\ initializeResolved(initPc) /\ driver.stage = "loop" /\ ~DriverAt
  /\ driver' = Driver("done", driver.idx, FALSE, NoConn)
  /\ UNCHANGED <<settings, currentUrl, inboundVars, peer, conns, connections, initPc,
                 pendingInitialSyncPeers, flushIdx, memoStore, sentCount,
                 lastSent, tie, sideVars, extVars>>

\* peer.on('connection'): a peer whose id is lower than ours dials in (its
\* first call, its retry, or a reload of its page).
IncomingConnection(p) ==
  /\ peer = "open"
  /\ StrLess(p, LocalId)
  /\ Len(conns) < MaxConns
  /\ conns' = Append(conns, Conn(p, "in", "none"))
  /\ UNCHANGED <<settings, currentUrl, inboundVars, peer, connections, initPc,
                 pendingInitialSyncPeers, flushIdx, driver, memoStore, sentCount, lastSent, tie, sideVars, extVars>>

\* conn 'open': connect's onOpen resolves the promise, setupConnection's
\* handler enters the connection in the map and calls the onConnection
\* observer, whose sendInitialSync buffers the peer or starts its storage
\* reads; a resolved connect lets connectToPeer start its own sendInitialSync.
ConnOpen(c) ==
  /\ c \in DOMAIN conns
  /\ conns[c].st = "connecting"
  /\ LET p == conns[c].peer IN
     /\ conns' = [conns EXCEPT ![c].st = "open",
                               ![c].promise = IF @ = "pending" THEN "resolved" ELSE @,
                               ![c].obs = IF settings.loaded THEN "reading" ELSE "buffered"]
     /\ connections' = [connections EXCEPT ![p] = c]
     /\ pendingInitialSyncPeers' =
          IF settings.loaded THEN pendingInitialSyncPeers ELSE SetAdd(pendingInitialSyncPeers, p)
     /\ driver' = IF conns[c].promise = "pending" THEN [driver EXCEPT !.stage = "syncing"]
                  ELSE driver
  /\ UNCHANGED <<settings, currentUrl, inboundVars, peer, initPc, flushIdx, memoStore,
                 sentCount, lastSent, tie, sideVars, extVars>>

\* connect's 30 s timer: the promise is rejected, the connection is left as
\* it is.
ConnTimeout(c) ==
  /\ c \in DOMAIN conns
  /\ conns[c].st = "connecting" /\ conns[c].promise = "pending"
  /\ conns' = [conns EXCEPT ![c].promise = "rejected"]
  /\ driver' = AfterConnectFailure(driver)
  /\ UNCHANGED <<settings, currentUrl, inboundVars, peer, connections, initPc,
                 pendingInitialSyncPeers, flushIdx, memoStore, sentCount,
                 lastSent, tie, sideVars, extVars>>

\* conn 'error': connect's onError rejects a pending promise and
\* setupConnection's handler deletes the map entry of the peer.
ConnError(c) ==
  /\ c \in DOMAIN conns
  /\ conns[c].st \in {"connecting", "open"}
  /\ conns' = [conns EXCEPT ![c].st = "closed",
                            ![c].promise = IF @ = "pending" THEN "rejected" ELSE @]
  /\ connections' = [connections EXCEPT ![conns[c].peer] = NoConn]
  /\ driver' = IF conns[c].promise = "pending" THEN AfterConnectFailure(driver) ELSE driver
  /\ UNCHANGED <<settings, currentUrl, inboundVars, peer, initPc, pendingInitialSyncPeers,
                 flushIdx, memoStore, sentCount, lastSent, tie, sideVars, extVars>>

\* conn 'close': the map entry of the peer is deleted.
ConnClose(c) ==
  /\ c \in DOMAIN conns
  /\ conns[c].st = "open"
  /\ conns' = [conns EXCEPT ![c].st = "closed"]
  /\ connections' = [connections EXCEPT ![conns[c].peer] = NoConn]
  /\ UNCHANGED <<settings, currentUrl, inboundVars, peer, initPc, pendingInitialSyncPeers,
                 flushIdx, driver, memoStore, sentCount, lastSent, tie, sideVars, extVars>>

\* The sendInitialSync started by the onConnection observer for connection c
\* completes its storage reads and calls sendTo.
ObserverSyncDone(c) ==
  /\ c \in DOMAIN conns
  /\ conns[c].obs = "reading"
  /\ SendInitialSyncAfterReads(conns[c].peer)
  /\ conns' = [conns EXCEPT ![c].obs =
                 IF sendTo(connections, conns, conns[c].peer) THEN "sent" ELSE "dropped"]
  /\ UNCHANGED <<settings, currentUrl, inboundVars, peer, connections, initPc,
                 pendingInitialSyncPeers, flushIdx, driver, tie, sideVars, extVars>>

ConnIds == 1..MaxConns

Next ==
  \/ TransportOpen
  \/ TransportError
  \/ SettingsLoaded
  \/ FlushStep
  \/ DriverSkip
  \/ DriverConnect
  \/ DriverSyncDone
  \/ DriverFinish
  \/ \E p \in RemotePeers : IncomingConnection(p)
  \/ \E c \in ConnIds : ConnOpen(c)
  \/ \E c \in ConnIds : ConnTimeout(c)
  \/ \E c \in ConnIds : ConnError(c)
  \/ \E c \in ConnIds : ConnClose(c)
  \/ \E c \in ConnIds : ObserverSyncDone(c)

Spec == Init /\ [][Next]_vars

\* The same installation sharing with two peers it has to dial itself.
LoopPeers == <<"memo-aaa", "memo-ccc", "memo-ddd">>

InitLoop ==
  /\ InitLinkAt("transport", "connecting")
  /\ memoStore = EmptyStore
  /\ settings = NullSettings
  /\ currentUrl = UrlX1
  /\ listening = FALSE
  /\ sharedMemos = EmptyShared
  /\ lastMsg = NoneReceived
  /\ lastEvents = <<>>
  /\ sharedBefore = EmptyShared
  /\ tie = TieIdle
  /\ InitExtWith(LoopPeers)

SpecLoop == InitLoop /\ [][Next]_vars

\* ------------------------------------------------------ outbound actions
\* StorageManager.saveMemo: replace the memo of that id under the key of its
\* URL, or append it.
saveMemo_Noop(store, memo, s) == store

saveMemo(store, memo, s) ==
  LET normalizedUrl == normalizeUrl(memo.url, s.removeQueryParams)
      old == store[normalizedUrl]
      hits == {i \in DOMAIN old : old[i].id = memo.id}
  IN IF hits # {}
     THEN LET existingIndex == CHOOSE i \in hits : \A j \in hits : i <= j
          IN [store EXCEPT ![normalizedUrl][existingIndex] = memo]
     ELSE [store EXCEPT ![normalizedUrl] = Append(old, memo)]

KeepOthers(q, memoId) ==
  IF q = <<>> THEN <<>>
  ELSE LET keep == {i \in DOMAIN q : q[i].id # memoId}
           nth(n) == CHOOSE i \in keep : Cardinality({j \in keep : j < i}) = n - 1
       IN [n \in 1..Cardinality(keep) |-> q[nth(n)]]

\* StorageManager.deleteMemo
deleteMemo(store, memoId, url, s) ==
  LET normalizedUrl == normalizeUrl(url, s.removeQueryParams)
  IN [store EXCEPT ![normalizedUrl] = KeepOthers(@, memoId)]

\* P2PClient.broadcast: every entry of the map whose connection is open.
broadcastTargets(cs, all) == {p \in AllPeers : sendTo(cs, all, p)}

BroadcastApis == {"broadcastMemoCreate", "broadcastMemoUpdate", "broadcastMemoDelete"}
\* the installation whose side of the link is modelled
FarPeer == "memo-aaa"

MessageType(api) ==
  CASE api = "broadcastMemoCreate" -> "memo:create"
    [] api = "broadcastMemoUpdate" -> "memo:update"
    [] api = "broadcastMemoDelete" -> "memo:delete"

\* const message: P2PMessage = { type, data }
Message(api, memo, url) ==
  [type |-> MessageType(api),
   data |-> IF api = "broadcastMemoDelete" THEN [memoId |-> memo.id, url |-> url] ELSE memo]

\* How a broadcast* call ends after its storage write: the catch block
\* rethrows a failed write.
callResult_Swallow(write) == "resolved"

callResult(write) == IF write = "failed" THEN "rejected" ELSE "resolved"

MaxCalls == 2
LocalIds == {"l1", "l2"}
OutMemos == [id : LocalIds, url : {UrlX1}, content : {"b"}, ownerId : {NoOwner}]

Busy == outCall.stage = "writing"

Call(api, by, memo, write, stage) ==
  [n |-> outCall.n + 1, api |-> api, by |-> by, memo |-> memo, write |-> write,
   stage |-> stage, linked |-> broadcastTargets(connections, conns), targets |-> {},
   handed |-> {}]

\* broadcastMemoCreate / Update / Delete up to the first await: nothing
\* happens while settings is null.
EnterBroadcast(api, by, memo) ==
  IF settings.loaded THEN Call(api, by, memo, "pending", "writing")
  ELSE Call(api, by, memo, "none", "resolved")

linkOnly == <<settings, currentUrl, inboundVars, linkVars, tie, sideVars, relay>>

\* An entity manager calls the coordinator's outbound API.
CallBroadcast ==
  /\ ~Busy /\ outCall.n < MaxCalls /\ initPc # "failed"
  /\ \E api \in BroadcastApis, memo \in OutMemos :
       outCall' = EnterBroadcast(api, "api", memo)
  /\ UNCHANGED <<linkOnly, mm>>

\* MemoManager.createMemo or an edit of a memo on the page: the memo is in
\* the memos map when saveMemo runs. saveMemo goes through the coordinator if
\* there is one and sharing is enabled, else straight to storage.
MmSaveMemo ==
  /\ ~Busy /\ outCall.n < MaxCalls
  /\ \E memo \in OutMemos :
       LET isExisting == memo.id \in mm.memos \cup {memo.id} IN
       /\ mm' = [mm EXCEPT !.memos = @ \cup {memo.id}]
       /\ outCall' =
            IF mm.sharingEnabled
            THEN EnterBroadcast(IF isExisting THEN "broadcastMemoUpdate"
                                ELSE "broadcastMemoCreate", "MemoManager", memo)
            ELSE Call("saveMemo", "MemoManager", memo, "pending", "writing")
  /\ UNCHANGED linkOnly

\* MemoManager.deleteMemo
MmDeleteMemo ==
  /\ ~Busy /\ outCall.n < MaxCalls
  /\ \E memo \in OutMemos :
       /\ mm' = [mm EXCEPT !.memos = @ \ {memo.id}]
       /\ outCall' =
            IF mm.sharingEnabled
            THEN EnterBroadcast("broadcastMemoDelete", "MemoManager", memo)
            ELSE Call("deleteMemo", "MemoManager", memo, "pending", "writing")
  /\ UNCHANGED linkOnly

\* The storage listener sees settings.sharingEnabled turned off.
SharingDisabled ==
  /\ ~Busy /\ mm.sharingEnabled
  /\ mm' = [mm EXCEPT !.sharingEnabled = FALSE]
  /\ UNCHANGED <<linkOnly, outCall>>

\* The awaited StorageManager call completes: a local-only save or delete
\* returns; a broadcast* call builds its message and calls
\* this.p2pClient.broadcast, which runs conn.send on every open connection of
\* the map, a send that throws being counted and skipped.
WriteDone ==
  /\ outCall.stage = "writing"
  /\ LET s == IF outCall.api \in BroadcastApis THEN settings ELSE mm.settings
         m == outCall.memo IN
     memoStore' = IF outCall.api \in {"broadcastMemoDelete", "deleteMemo"}
                  THEN deleteMemo(memoStore, m.id, currentUrl, s)
                  ELSE saveMemo(memoStore, m, s)
  /\ \E thrown \in SUBSET broadcastTargets(connections, conns) :
       LET targets == IF outCall.api \in BroadcastApis
                      THEN broadcastTargets(connections, conns) ELSE {}
           handed == targets \ thrown IN
       /\ outCall' = [outCall EXCEPT !.write = "ok", !.stage = callResult("ok"),
                                     !.targets = targets, !.handed = handed]
       /\ remote' = IF FarPeer \in handed
                    THEN [remote EXCEPT !.queue = Append(@, Message(outCall.api, outCall.memo, currentUrl))]
                    ELSE remote
  /\ UNCHANGED <<settings, currentUrl, inboundVars, peer, conns, connections, initPc,
                 pendingInitialSyncPeers, flushIdx, driver, sentCount, lastSent, tie, um, server,
                 sm, db, mm, relay>>

\* chrome.storage.local.set rejects: StorageManager rethrows, and so does the
\* broadcast* call; MemoManager logs it. deleteMemo writes only when the key
\* holds memos.
WriteFail ==
  /\ outCall.stage = "writing"
  /\ outCall.api \in {"broadcastMemoDelete", "deleteMemo"} =>
       LET s == IF outCall.api \in BroadcastApis THEN settings ELSE mm.settings
       IN memoStore[normalizeUrl(currentUrl, s.removeQueryParams)] # <<>>
  /\ outCall' = [outCall EXCEPT !.write = "failed", !.stage = callResult("failed")]
  /\ UNCHANGED <<linkOnly, mm>>

InitOut ==
  /\ InitLinkAt("transport", "connecting")
  /\ memoStore \in {EmptyStore, [EmptyStore EXCEPT ![UrlX1] = <<LocalMemo("l1", UrlX1)>>]}
  /\ settings = NullSettings
  /\ currentUrl = UrlX1
  /\ listening = FALSE
  /\ sharedMemos = EmptyShared
  /\ lastMsg = NoneReceived
  /\ lastEvents = <<>>
  /\ sharedBefore = EmptyShared
  /\ tie = TieIdle
  /\ \E rq \in BOOLEAN :
       mm = [memos |-> {memoStore[UrlX1][i].id : i \in DOMAIN memoStore[UrlX1]},
             sharingEnabled |-> TRUE, settings |-> Loaded(rq), sharedPeers |-> DefaultPeers]
  /\ outCall = NoCall
  /\ relay = RelayIdle
  /\ InitSide

\* The first peer to dial in.
FirstIncomingConnection(p) == conns = <<>> /\ IncomingConnection(p)

\* The outbound path over a coordinator with one incoming link; the peer loop
\* of initializeP2PSync is left out.
NextOut ==
  \/ TransportOpen
  \/ TransportError
  \/ SettingsLoaded
  \/ FlushStep
  \/ \E p \in RemotePeers : FirstIncomingConnection(p)
  \/ \E c \in ConnIds : ConnOpen(c)
  \/ \E c \in ConnIds : ConnClose(c)
  \/ \E c \in ConnIds : ObserverSyncDone(c)
  \/ CallBroadcast
  \/ MmSaveMemo
  \/ MmDeleteMemo
  \/ SharingDisabled
  \/ WriteDone
  \/ WriteFail

SpecOut == InitOut /\ [][NextOut]_vars

\* getSettings resolves, the storage reads of a started sendInitialSync
\* complete, and initialize's flush loop goes on: none of them waits on the
\* network.
FairSpec ==
  /\ Spec
  /\ WF_vars(SettingsLoaded)
  /\ WF_vars(FlushStep)
  /\ WF_vars(DriverSyncDone)
  /\ \A c \in ConnIds : WF_vars(ObserverSyncDone(c))

\* ----------------------------------------------------------- link claims
ConnsOf(p) == {c \in DOMAIN conns : conns[c].peer = p}
Connecting(p, dir) == {c \in ConnsOf(p) : conns[c].dir = dir /\ conns[c].st = "connecting"}
OpenLinks(p) == {c \in ConnsOf(p) : conns[c].st = "open"}
\* 'open' events seen so far on connections of p
opened(p) == Cardinality({c \in ConnsOf(p) : conns[c].obs # "none"})

\* C1: for every remote identity at most one outbound link attempt is under
\* way at a time: a connect(X) made while an earlier attempt to X is still
\* connecting does not open a second outbound channel.
C1_OneOutboundAttemptPerPeer ==
  \A p \in RemotePeers : Cardinality(Connecting(p, "out")) <= 1

\* C2: in every reachable state at most one link per remote identity is open.
C2_OneOpenLinkPerPeer ==
  \A p \in RemotePeers : Cardinality(OpenLinks(p)) <= 1

ObservedOpen(c) == c \in DOMAIN conns /\ conns[c].obs \in {"buffered", "reading"}
SyncSent(c) == c \in DOMAIN conns /\ conns[c].obs = "sent"
LinkGone(c) == c \in DOMAIN conns /\ conns[c].st = "closed"

\* C4: whenever a link is observed to open, the initial sync started for that
\* observation is eventually handed to the transport, unless that link itself
\* has closed by then.
C4_OpenLeadsToInitialSync ==
  \A c \in ConnIds : ObservedOpen(c) ~> (SyncSent(c) \/ LinkGone(c))

\* C5: when the flush of the buffered peers completes, every buffered peer has
\* been sent at most one initial sync, however many open observations for it
\* arrived before that.
C5_BufferedPeerSentOnce ==
  [][(initPc = "flush" /\ initPc' = "done")
       => \A p \in RemotePeers :
            InSeq(pendingInitialSyncPeers, p) => sentCount'[p] <= 1]_vars

\* C6: the initial syncs handed to the transport for a peer never outnumber
\* the transitions to open of links to that peer.
C6_OneInitialSyncPerOpen ==
  \A p \in RemotePeers : sentCount[p] <= opened(p)

\* ------------------------------------------------------ tie-break actions
\* Two installations a and b with distinct identities; each has the other in
\* its sharedPeers list, next to a third identity, in either order.
TieIds == {"memo-aaa", "memo-bbb", "memo-9f", "memo-a0", "memo-a"}

PeerLists(self, other) ==
  UNION { {<<other, third>>, <<third, other>>} : third \in TieIds \ {self, other} }

InitTie ==
  /\ InitLinkAt("transport", "connecting")
  /\ memoStore = EmptyStore
  /\ settings = NullSettings
  /\ currentUrl = UrlX1
  /\ listening = FALSE
  /\ sharedMemos = EmptyShared
  /\ lastMsg = NoneReceived
  /\ lastEvents = <<>>
  /\ sharedBefore = EmptyShared
  /\ InitExt
  /\ \E a \in TieIds : \E b \in TieIds \ {a} :
       \E la \in PeerLists(a, b) : \E lb \in PeerLists(b, a) :
         tie = [a |-> a, b |-> b, peersA |-> la, peersB |-> lb, idxA |-> 1, idxB |-> 1,
                initA |-> {}, initB |-> {}]

\* One turn of the peer loop of initializeP2PSync on installation a: it calls
\* connectToPeer(peerId) iff userId < peerId.
TieStepA ==
  /\ tie.a # "none" /\ tie.idxA <= Len(tie.peersA)
  /\ LET peerId == tie.peersA[tie.idxA] IN
     tie' = [tie EXCEPT !.idxA = @ + 1,
                        !.initA = IF StrLess(tie.a, peerId) THEN @ \cup {peerId} ELSE @]
  /\ UNCHANGED <<settings, currentUrl, inboundVars, linkVars, sideVars, extVars>>

\* The same on installation b.
TieStepB ==
  /\ tie.a # "none" /\ tie.idxB <= Len(tie.peersB)
  /\ LET peerId == tie.peersB[tie.idxB] IN
     tie' = [tie EXCEPT !.idxB = @ + 1,
                        !.initB = IF StrLess(tie.b, peerId) THEN @ \cup {peerId} ELSE @]
  /\ UNCHANGED <<settings, currentUrl, inboundVars, linkVars, sideVars, extVars>>

NextTie == TieStepA \/ TieStepB

SpecTie == InitTie /\ [][NextTie]_vars

\* ------------------------------------------------------ tie-break claims
\* u sorts before v: at the first position where they differ u has the
\* smaller code unit, or u ends there and v goes on.
LexLower(u, v) ==
  \E k \in 1..Len(v) :
    /\ \A i \in 1..(k - 1) : i <= Len(u) /\ u[i] = v[i]
    /\ (k > Len(u) \/ u[k] < v[k])

AInitiates == tie.b \in tie.initA
BInitiates == tie.a \in tie.initB
TieDone == tie.a # "none" /\ tie.idxA > Len(tie.peersA) /\ tie.idxB > Len(tie.peersB)

\* C3: of two installations that list each other, never both initiate; a side
\* initiates only if its identity sorts lower; and once both peer loops have
\* run, exactly one side has initiated, the one whose identity sorts lower,
\* whatever the order of the loop turns and of the peer lists.
C3_ExactlyOneSideInitiates ==
  tie.a # "none" =>
    /\ ~(AInitiates /\ BInitiates)
    /\ AInitiates => LexLower(Units(tie.a), Units(tie.b))
    /\ BInitiates => LexLower(Units(tie.b), Units(tie.a))
    /\ TieDone => /\ AInitiates # BInitiates
                  /\ AInitiates <=> LexLower(Units(tie.a), Units(tie.b))

\* a digit sorts before a letter: "memo-9f" initiates to "memo-a0", with the
\* two lists in opposite orders.
C3_Witness ==
  /\ TieDone
  /\ tie.a = "memo-a0" /\ tie.b = "memo-9f"
  /\ tie.peersA[1] = tie.b /\ tie.peersB[2] = tie.a
  /\ BInitiates /\ ~AInitiates

\* ------------------------------------------------------ inbound claims
Last == lastMsg.msg
Emitted == lastEvents # <<>>

\* The spec's scope filter: some pairing of a normalized form of the message
\* URL with a normalized form of the current URL is equal.
InScopeAny(url, cur) ==
  \E f1 \in BOOLEAN, f2 \in BOOLEAN : normalizeUrl(url, f1) = normalizeUrl(cur, f2)

UrlFiltered == {"memo:create", "memo:update", "sync:initial"}

CreateOrUpdate == {"memo:create", "memo:update", "highlight:create", "drawing:create"}

\* C8: an inbound create/update of any kind is re-emitted only if its URL is
\* in scope for the current page, and then with ownerId = the sending peer.
C8_CreateUpdateScopedAndStamped ==
  (Last.type \in CreateOrUpdate /\ Emitted) =>
    /\ InScopeAny(Last.data.url, currentUrl)
    /\ \A i \in DOMAIN lastEvents : lastEvents[i].detail.ownerId = lastMsg.from

SeqRange(q) == {q[i] : i \in DOMAIN q}

\* C9: every entity re-emitted from an inbound sync:initial has a URL that is
\* in scope for the receiver's current page.
C9_InitialSyncEntitiesInScope ==
  \A i \in DOMAIN lastEvents :
    lastEvents[i].type = "p2p:initial-sync" =>
      \A e \in SeqRange(lastEvents[i].detail.memos)
              \cup SeqRange(lastEvents[i].detail.highlights)
              \cup SeqRange(lastEvents[i].detail.drawings) :
        InScopeAny(e.url, currentUrl)

UpdateOfUnseen == Last.type = "memo:update" /\ Last.data.id \notin DOMAIN sharedBefore
AsCreateEvents == handleMemoCreate(lastMsg.settings, currentUrl, Last.data, lastMsg.from)
Details(evs) == [i \in DOMAIN evs |-> evs[i].detail]

\* C10 as stated: an update for an unseen id results in the same downstream
\* event as a create for that entity.
C10_UpdateEmitsCreateEvent == UpdateOfUnseen => lastEvents = AsCreateEvents

\* C10 amended: an update for an unseen id is re-emitted as p2p:memo-updated
\* with the payload a create would carry (ownerId = sender), and the memo
\* manager then holds exactly what it would hold had the create arrived.
C10_UpdateOfUnseenActsAsCreate ==
  UpdateOfUnseen =>
    /\ Details(lastEvents) = Details(AsCreateEvents)
    /\ \A i \in DOMAIN lastEvents : lastEvents[i].type = "p2p:memo-updated"
    /\ sharedMemos = IF lastMsg.listening THEN Dispatch(sharedBefore, AsCreateEvents)
                                            ELSE sharedBefore
    /\ (Emitted /\ lastMsg.listening) =>
         /\ Last.data.id \in DOMAIN sharedMemos
         /\ sharedMemos[Last.data.id] = [Last.data EXCEPT !.ownerId = lastMsg.from]

C10_Witness ==
  /\ UpdateOfUnseen /\ Emitted /\ lastMsg.listening
  /\ Last.data.id \in DOMAIN sharedMemos
  /\ sharedMemos[Last.data.id].content = "b"
  /\ sharedMemos[Last.data.id].ownerId = "memo-ccc"
  /\ lastMsg.from = "memo-ccc"

DeleteKinds == {"memo:delete", "highlight:delete", "drawing:delete"}
DeletedEvent(t) ==
  CASE t = "memo:delete" -> "p2p:memo-deleted"
    [] t = "highlight:delete" -> "p2p:highlight-deleted"
    [] t = "drawing:delete" -> "p2p:drawing-deleted"

\* C11: an inbound delete of any kind is re-emitted as the remove-by-id event
\* of its kind with the data it carried, whatever its URL and the receiver's
\* settings; the memo manager then drops the shared memo of that id if it
\* holds one, and is left as it was if it holds none.
C11_DeleteReemittedUnconditionally ==
  Last.type \in DeleteKinds =>
    /\ lastEvents = <<Event(DeletedEvent(Last.type), Last.data)>>
    /\ sharedMemos =
         IF Last.type = "memo:delete" /\ lastMsg.listening
            /\ Last.data.memoId \in DOMAIN sharedBefore
         THEN Without(sharedBefore, Last.data.memoId)
         ELSE sharedBefore

\* a delete scoped to /z removes the shared memo shown on /x?y=1
C11_Witness ==
  /\ Last.type = "memo:delete" /\ Last.data.url = UrlZ /\ currentUrl = UrlX1
  /\ lastMsg.settings.loaded /\ lastMsg.listening
  /\ Last.data.memoId \in DOMAIN sharedBefore
  /\ Last.data.memoId \notin DOMAIN sharedMemos
  /\ Emitted

Faulty == Last \in MalformedMsgs \cup UnknownKindMsgs

\* C19: a malformed message, or one of an unknown kind, emits no local event
\* and changes nothing in the receiver.
C19_FaultyMessageDropped ==
  Faulty => (lastEvents = <<>> /\ sharedMemos = sharedBefore)

\* ------------------------------------------- relay transport (WebSocket)
MaxRelayCalls == 2
relayRest == <<settings, currentUrl, inboundVars, linkVars, tie, sideVars, mm, outCall>>

\* this.ws && this.ws.readyState === WebSocket.OPEN
isConnected(r) == r.ws = "open"

\* broadcast(data): nothing without an open socket; otherwise ws.send, whose
\* exception is caught and logged.
relayBroadcast(r, throws) == isConnected(r) /\ ~throws

\* sendTo(_peerId, data) { this.broadcast(data); return true; }
relaySendToResult(r, throws) == "true"

InitRelay == Init /\ memoStore = EmptyStore

MaxDrops == 2

reconnectOnClose_Always(r) == TRUE

reconnectOnClose_Never(r) == FALSE

\* if (!this.isIntentionalClose)
reconnectOnClose(r) == ~r.intentional

\* ws.onclose: reconnectTimer = setTimeout(connectToServer, 3000) unless the
\* close was intentional; a timer set earlier is not cleared
onclose(r) ==
  IF reconnectOnClose(r) THEN [r EXCEPT !.timer = TRUE, !.timers = @ + 1] ELSE r

\* initialize(signalingServerUrl): new URL(...) may throw, which rejects;
\* otherwise connectToServer(resolve, reject) creates the socket.
RelayInitialize ==
  /\ relay.promise = "none"
  /\ \E validUrl \in BOOLEAN :
       relay' = IF validUrl
                THEN [relay EXCEPT !.ws = "connecting", !.promise = "pending", !.torn = FALSE]
                ELSE [relay EXCEPT !.promise = "rejected"]
  /\ UNCHANGED relayRest

\* ws.onopen: register with the server, resolve the first connection's promise.
WsOpen ==
  /\ relay.ws = "connecting"
  /\ relay' = [relay EXCEPT !.ws = "open",
                            !.promise = IF @ = "pending" THEN "resolved" ELSE @]
  /\ UNCHANGED relayRest

\* onmessage, type 'registered': the server's reply to the register message
\* calls the onConnection observer, whose sendInitialSync sends the snapshot
WsRegistered ==
  /\ relay.ws = "open" /\ ~relay.registered
  /\ relay' = [relay EXCEPT !.registered = TRUE, !.observed = @ + 1]
  /\ UNCHANGED relayRest

\* ws.onerror: reject the first connection's promise (no effect once settled,
\* none on a reconnect, which passes no reject).
WsError ==
  /\ relay.ws \in {"connecting", "open"}
  /\ relay' = [relay EXCEPT !.promise = IF @ = "pending" THEN "rejected" ELSE @]
  /\ UNCHANGED relayRest

\* ws.onclose: schedule connectToServer in 3000 ms unless the close was
\* intentional.
WsClose ==
  /\ relay.ws \in {"connecting", "open"}
  /\ relay.drops < MaxDrops
  /\ relay' = [onclose(relay) EXCEPT !.ws = "closed", !.registered = FALSE, !.drops = @ + 1]
  /\ UNCHANGED relayRest

\* the onclose of the socket that disconnect() closed
WsCloseTorn ==
  /\ relay.dying = "closing"
  /\ relay' = [onclose(relay) EXCEPT !.dying = "closed"]
  /\ UNCHANGED relayRest

\* the reconnect timer fires: connectToServer() with no resolve / reject
ReconnectFire ==
  /\ relay.timer
  /\ relay' = [relay EXCEPT !.timer = FALSE, !.timers = @ - 1, !.ws = "connecting"]
  /\ UNCHANGED relayRest

\* disconnect(): the flag, clearTimeout of the timer held, close of the socket
\* held; that socket's own onclose comes later.
RelayDisconnect ==
  /\ ~relay.intentional
  /\ relay' = [relay EXCEPT !.intentional = TRUE, !.timer = FALSE,
                            !.timers = IF relay.timer THEN @ - 1 ELSE @,
                            !.dying = IF relay.ws \in {"connecting", "open"} THEN "closing" ELSE @,
                            !.registered = FALSE,
                            !.ws = "null", !.torn = TRUE]
  /\ UNCHANGED relayRest

\* one call of the client's API; torn: made after disconnect(), with no
\* initialize since
RelayCall(api, to, returned, handed) ==
  [n |-> relay.call.n + 1, api |-> api, to |-> to, returned |-> returned, handed |-> handed,
   torn |-> relay.torn]

\* connect(_peerId) { return Promise.resolve(); }
relayConnectResult(r) == "resolved"

RelayConnect ==
  /\ relay.call.n < MaxRelayCalls
  /\ \E p \in RemotePeers :
       relay' = [relay EXCEPT !.call = RelayCall("connect", p, relayConnectResult(relay), FALSE)]
  /\ UNCHANGED relayRest

RelaySendTo ==
  /\ relay.call.n < MaxRelayCalls
  /\ \E p \in RemotePeers, throws \in BOOLEAN :
       relay' = [relay EXCEPT !.call =
                   RelayCall("sendTo", p, relaySendToResult(relay, throws),
                             relayBroadcast(relay, throws))]
  /\ UNCHANGED relayRest

RelayBroadcast ==
  /\ relay.call.n < MaxRelayCalls
  /\ \E throws \in BOOLEAN :
       relay' = [relay EXCEPT !.call =
                   RelayCall("broadcast", "all", "void", relayBroadcast(relay, throws))]
  /\ UNCHANGED relayRest

NextRelay ==
  \/ RelayInitialize
  \/ WsOpen
  \/ WsRegistered
  \/ WsError
  \/ WsClose
  \/ WsCloseTorn
  \/ ReconnectFire
  \/ RelayDisconnect
  \/ RelayConnect
  \/ RelaySendTo
  \/ RelayBroadcast

SpecRelay == InitRelay /\ [][NextRelay]_vars

\* the timer fires, a reachable server accepts the socket and answers the
\* register message
FairRelay ==
  SpecRelay /\ WF_vars(ReconnectFire) /\ WF_vars(WsOpen) /\ WF_vars(WsRegistered)

\* ------------------------------------------------- identity (UserManager)
MaxIds == 4
idRest == <<settings, currentUrl, inboundVars, linkVars, tie, server, remote, sm, db, extVars>>

\* generateUserId(): a v4 UUID prefix, taken to be new every time
generateUserId(u) == UserId(u.fresh + 1)

\* getUserId's catch block: log, and return generateUserId()
getUserIdCatch(c, id) == [c EXCEPT !.pc = "returned", !.ret = id, !.faulted = TRUE]

IdCallOver(ctx) == um.calls[ctx].pc \in {"idle", "returned", "rejected"}

\* getUserId() up to `await chrome.storage.local.get`
GetUserIdCall(ctx) ==
  /\ IdCallOver(ctx)
  /\ um' = [um EXCEPT !.calls[ctx] = [NoIdCall EXCEPT !.op = "getUserId", !.pc = "get"]]
  /\ UNCHANGED idRest

\* the read resolves: return the stored id, or generate one and go on to
\* `await this.saveUserId(userId)`
GetResolved(ctx) ==
  /\ um.calls[ctx].pc = "get"
  /\ IF um.stored # NoId
     THEN um' = [um EXCEPT !.calls[ctx] =
                   [@ EXCEPT !.pc = "returned", !.ret = um.stored, !.epoch = um.resets]]
     ELSE /\ um.fresh < MaxIds
          /\ um' = [um EXCEPT !.fresh = @ + 1,
                              !.calls[ctx] = [@ EXCEPT !.pc = "set", !.id = generateUserId(um),
                                                       !.epoch = um.resets]]
  /\ UNCHANGED idRest

\* the read rejects
GetFailed(ctx) ==
  /\ um.calls[ctx].pc = "get"
  /\ um.fresh < MaxIds
  /\ um' = [um EXCEPT !.fresh = @ + 1,
                      !.calls[ctx] = getUserIdCatch(@, generateUserId(um))]
  /\ UNCHANGED idRest

\* resetUserId() up to `await this.saveUserId(newUserId)` (options page)
ResetUserIdCall ==
  /\ IdCallOver("options")
  /\ um.fresh < MaxIds
  /\ um' = [um EXCEPT !.fresh = @ + 1,
                      !.calls["options"] =
                        [NoIdCall EXCEPT !.op = "resetUserId", !.pc = "set",
                                         !.id = generateUserId(um)]]
  /\ UNCHANGED idRest

\* saveUserId's chrome.storage.local.set resolves
SetResolved(ctx) ==
  /\ um.calls[ctx].pc = "set"
  /\ LET c == um.calls[ctx]
         reset == c.op = "resetUserId" IN
     um' = [um EXCEPT !.stored = c.id,
                      !.resets = IF reset THEN @ + 1 ELSE @,
                      !.lastReset = IF reset THEN c.id ELSE @,
                      !.calls[ctx] = [@ EXCEPT !.pc = "returned", !.ret = c.id]]
  /\ UNCHANGED idRest

\* saveUserId's write rejects and saveUserId rethrows: resetUserId rejects,
\* getUserId's catch returns another generated id
SetFailed(ctx) ==
  /\ um.calls[ctx].pc = "set"
  /\ IF um.calls[ctx].op = "resetUserId"
     THEN um' = [um EXCEPT !.calls[ctx] = [@ EXCEPT !.pc = "rejected", !.faulted = TRUE]]
     ELSE /\ um.fresh < MaxIds
          /\ um' = [um EXCEPT !.fresh = @ + 1,
                              !.calls[ctx] = getUserIdCatch(@, generateUserId(um))]
  /\ UNCHANGED idRest

\* StorageManager.clearAllData: chrome.storage.local.clear()
ClearAllData ==
  /\ um.stored # NoId
  /\ um' = [um EXCEPT !.stored = NoId, !.cleared = TRUE]
  /\ UNCHANGED idRest

\* initializeP2PSync after its getUserId: new P2PSyncManager(userId) and
\* initialize, which creates the transport under that id
StartCoordinator ==
  /\ um.calls["page"].op = "getUserId" /\ um.calls["page"].pc = "returned"
  /\ um.boot.id = NoId
  /\ um' = [um EXCEPT !.boot = [id |-> um.calls["page"].ret,
                                faulted |-> um.calls["page"].faulted]]
  /\ UNCHANGED idRest

InitId == Init /\ memoStore = EmptyStore

NextId ==
  \/ \E ctx \in Ctx : GetUserIdCall(ctx)
  \/ \E ctx \in Ctx : GetResolved(ctx)
  \/ \E ctx \in Ctx : GetFailed(ctx)
  \/ ResetUserIdCall
  \/ \E ctx \in Ctx : SetResolved(ctx)
  \/ \E ctx \in Ctx : SetFailed(ctx)
  \/ ClearAllData
  \/ StartCoordinator

SpecId == InitId /\ [][NextId]_vars

\* -------------------------------------------- the far end of the link
farRest == <<settings, currentUrl, inboundVars, linkVars, tie, um, server, sm, db, extVars>>

\* the far installation's StorageManager.getSettings resolves
FarSettingsLoaded ==
  /\ ~remote.settings.loaded
  /\ \E rq \in BOOLEAN : remote' = [remote EXCEPT !.settings = Loaded(rq)]
  /\ UNCHANGED farRest

\* the far installation's MemoManager.setupP2PListeners
FarSetupP2PListeners ==
  /\ ~remote.listening
  /\ remote' = [remote EXCEPT !.listening = TRUE]
  /\ UNCHANGED farRest

\* conn.on('data') at the far end, which is on the same page: its onData
\* callback dispatches the events and its listeners, if registered, run.
Deliver ==
  /\ remote.queue # <<>>
  /\ LET evs == onData(remote.settings, currentUrl, Head(remote.queue), LocalId) IN
     remote' = [remote EXCEPT
                  !.queue = Tail(@),
                  !.events = @ \o evs,
                  !.sharedMemos = IF remote.listening THEN Dispatch(@, evs) ELSE @]
  /\ UNCHANGED farRest

InitE2E == InitOut /\ memoStore = EmptyStore /\ mm.settings = Loaded(FALSE)

NextE2E ==
  \/ TransportOpen
  \/ SettingsLoaded
  \/ FlushStep
  \/ FirstIncomingConnection(FarPeer)
  \/ \E c \in ConnIds : ConnOpen(c)
  \/ \E c \in ConnIds : ConnClose(c)
  \/ \E c \in ConnIds : ObserverSyncDone(c)
  \/ CallBroadcast
  \/ WriteDone
  \/ FarSettingsLoaded
  \/ FarSetupP2PListeners
  \/ Deliver

SpecE2E == InitE2E /\ [][NextE2E]_vars

\* Storage reads and writes complete, the channel delivers, and each side's
\* startup goes on.
FairE2E ==
  /\ SpecE2E
  /\ WF_vars(SettingsLoaded)
  /\ WF_vars(FlushStep)
  /\ \A c \in ConnIds : WF_vars(ObserverSyncDone(c))
  /\ WF_vars(WriteDone)
  /\ WF_vars(FarSettingsLoaded)
  /\ WF_vars(FarSetupP2PListeners)
  /\ WF_vars(Deliver)

\* ---------------------------------------------------------- relay server
MaxSocks == 3
MaxForwards == 2
serverRest == <<settings, currentUrl, inboundVars, linkVars, tie, um, remote, sm, db, extVars>>

\* broadcast(data) of the relay client: { ...data, senderId: this.userId }
Tagged(type, userId) == [type |-> type, senderId |-> userId]

\* onmessage of the relay client: the peer id handed to the data callback
receivedFrom(msg) == IF msg.senderId # "" THEN msg.senderId ELSE "server"

forwardTargets_Echo(srv, userId) ==
  {c \in Users : srv.clients[c] # NoSock /\ srv.socks[srv.clients[c]].st = "open"}

\* clients.forEach: every entry but the sender's whose socket is OPEN
forwardTargets(srv, userId) ==
  {c \in Users : /\ srv.clients[c] # NoSock
                 /\ c # userId
                 /\ srv.socks[srv.clients[c]].st = "open"}

\* wss.on('connection'): a client (a page of user u) has opened a socket
SockConnect(u) ==
  /\ Len(server.socks) < MaxSocks
  /\ server' = [server EXCEPT !.socks =
                  Append(@, [user |-> u, userId |-> "none", st |-> "open", inbox |-> <<>>])]
  /\ UNCHANGED serverRest

\* the register message the client sends from ws.onopen
SockRegister(k) ==
  /\ k \in DOMAIN server.socks
  /\ server.socks[k].st = "open" /\ server.socks[k].userId = "none"
  /\ LET u == server.socks[k].user IN
     server' = [server EXCEPT
                  !.clients[u] = k,
                  !.socks[k] = [@ EXCEPT !.userId = u,
                                         !.inbox = Append(@, [type |-> "registered", senderId |-> ""])]]
  /\ UNCHANGED serverRest

\* any other message from socket k: forwarded if the socket has registered
SockMessage(k) ==
  /\ k \in DOMAIN server.socks
  /\ server.socks[k].st = "open"
  /\ server.sent < MaxForwards
  /\ LET msg == Tagged("memo:create", server.socks[k].user)
         to == IF server.socks[k].userId # "none"
               THEN {server.clients[c] : c \in forwardTargets(server, server.socks[k].userId)}
               ELSE {} IN
     server' = [server EXCEPT
                  !.socks = [j \in DOMAIN @ |->
                               IF j \in to THEN [@[j] EXCEPT !.inbox = Append(@, msg)] ELSE @[j]],
                  !.sent = @ + 1,
                  !.last = [from |-> k, msg |-> msg, to |-> to]]
  /\ UNCHANGED serverRest

\* ws.on('close'): if (userId) clients.delete(userId)
SockClose(k) ==
  /\ k \in DOMAIN server.socks
  /\ server.socks[k].st = "open"
  /\ server' = [server EXCEPT
                  !.socks[k].st = "closed",
                  !.clients = IF server.socks[k].userId # "none"
                              THEN [@ EXCEPT ![server.socks[k].userId] = NoSock]
                              ELSE @]
  /\ UNCHANGED serverRest

SockIds == 1..MaxSocks

InitServer == Init /\ memoStore = EmptyStore

NextServer ==
  \/ \E u \in Users : SockConnect(u)
  \/ \E k \in SockIds : SockRegister(k)
  \/ \E k \in SockIds : SockMessage(k)
  \/ \E k \in SockIds : SockClose(k)

SpecServer == InitServer /\ [][NextServer]_vars

\* -------------------------------------- StorageManager, overlapping calls
MaxStoreCalls == 2
smRest == <<settings, currentUrl, inboundVars, peer, conns, connections, initPc,
            pendingInitialSyncPeers, flushIdx, driver, sentCount, lastSent, tie,
            um, server, remote, db, extVars>>

\* the settings argument the callers pass
StoreSettings == Loaded(FALSE)

StoreCall(op, memo) ==
  [op |-> op, memo |-> memo, pc |-> "reading", readFailed |-> FALSE, next |-> EmptyStore]

CallIds == {sm.calls[i].memo.id : i \in DOMAIN sm.calls}

\* saveMemo(memo) up to its `await this.getAllMemos()`
SmSaveMemo(memo) ==
  /\ Len(sm.calls) < MaxStoreCalls
  /\ memo.id \notin CallIds
  /\ sm' = [sm EXCEPT !.calls = Append(@, StoreCall("saveMemo", memo))]
  /\ UNCHANGED <<memoStore, smRest>>

\* deleteMemo(memo.id, memo.url) up to its `await this.getAllMemos()`
SmDeleteMemo(memo) ==
  /\ Len(sm.calls) < MaxStoreCalls
  /\ memo.id \notin CallIds
  /\ sm' = [sm EXCEPT !.calls = Append(@, StoreCall("deleteMemo", memo))]
  /\ UNCHANGED <<memoStore, smRest>>

\* what a call does with the object getAllMemos returned, up to its
\* chrome.storage.local.set
afterRead(c, allMemos) ==
  IF c.op = "saveMemo"
  THEN [c EXCEPT !.pc = "writing", !.next = saveMemo(allMemos, c.memo, StoreSettings)]
  ELSE IF allMemos[normalizeUrl(c.memo.url, StoreSettings.removeQueryParams)] # <<>>
       THEN [c EXCEPT !.pc = "writing",
                      !.next = deleteMemo(allMemos, c.memo.id, c.memo.url, StoreSettings)]
       ELSE [c EXCEPT !.pc = "done"]

\* getAllMemos resolves with what storage holds now
SmGetAllMemos(i) ==
  /\ i \in DOMAIN sm.calls
  /\ sm.calls[i].pc = "reading"
  /\ sm' = [sm EXCEPT !.calls[i] = afterRead(@, memoStore)]
  /\ UNCHANGED <<memoStore, smRest>>

\* chrome.storage.local.get rejects: getAllMemos returns {}
SmGetAllMemosFail(i) ==
  /\ i \in DOMAIN sm.calls
  /\ sm.calls[i].pc = "reading"
  /\ sm' = [sm EXCEPT !.calls[i] = [afterRead(@, EmptyStore) EXCEPT !.readFailed = TRUE]]
  /\ UNCHANGED <<memoStore, smRest>>

\* chrome.storage.local.set({ memos: allMemos }) takes effect
SmSet(i) ==
  /\ i \in DOMAIN sm.calls
  /\ sm.calls[i].pc = "writing"
  /\ memoStore' = sm.calls[i].next
  /\ sm' = [sm EXCEPT !.calls[i].pc = "done"]
  /\ UNCHANGED smRest

StoreCallIds == 1..MaxStoreCalls

SmStores == {EmptyStore, [EmptyStore EXCEPT ![UrlX1] = <<LocalMemo("l1", UrlX1)>>]}

InitSm ==
  /\ InitLinkAt("transport", "connecting")
  /\ memoStore \in SmStores
  /\ settings = NullSettings
  /\ currentUrl = UrlX1
  /\ listening = FALSE
  /\ sharedMemos = EmptyShared
  /\ lastMsg = NoneReceived
  /\ lastEvents = <<>>
  /\ sharedBefore = EmptyShared
  /\ tie = TieIdle
  /\ InitExt

NextSm ==
  \/ \E memo \in OutMemos : SmSaveMemo(memo)
  \/ \E memo \in OutMemos : SmDeleteMemo(memo)
  \/ \E i \in StoreCallIds : SmGetAllMemos(i)
  \/ \E i \in StoreCallIds : SmGetAllMemosFail(i)
  \/ \E i \in StoreCallIds : SmSet(i)

SpecSm == InitSm /\ [][NextSm]_vars

\* ------------------------------------------ MemoManager.debouncedSaveMemo
MaxEdits == 3
dbRest == <<settings, currentUrl, inboundVars, linkVars, tie, um, server, remote, sm, extVars>>

\* func(memo) of the debounce: MemoManager.saveMemo(memo), given the memo
\* object of the component, saves the content that object holds now
SaveNow(d, id) == [d EXCEPT !.saved[id] = d.requested[id]]

\* a MemoComponent changes its memo and calls onUpdate(this.memo), which is
\* the one debounced function every component was given
DebouncedSaveMemo(id, content) ==
  /\ ~db.unloaded
  /\ db.edits < MaxEdits
  /\ db' = [db EXCEPT !.requested[id] = content,
                      !.lastArgs = [id |-> id],
                      !.timeout = "pending",
                      !.timerArgs = [id |-> id],
                      !.edits = @ + 1]
  /\ UNCHANGED dbRest

\* the timer set by the last call fires: func(...args); lastArgs = null
DebounceTimerFire ==
  /\ ~db.unloaded
  /\ db.timeout = "pending"
  /\ db' = [SaveNow(db, db.timerArgs.id) EXCEPT !.lastArgs = NoArgs, !.timeout = "fired"]
  /\ UNCHANGED dbRest

\* beforeunload: debouncedSaveMemo.flush()
BeforeUnload ==
  /\ ~db.unloaded
  /\ db' = [(IF db.lastArgs # NoArgs THEN SaveNow(db, db.lastArgs.id) ELSE db)
              EXCEPT !.timeout = "null", !.lastArgs = NoArgs, !.unloaded = TRUE]
  /\ UNCHANGED dbRest

InitDebounce == Init /\ memoStore = EmptyStore

NextDebounce ==
  \/ \E id \in LocalIds, content \in Contents : DebouncedSaveMemo(id, content)
  \/ DebounceTimerFire
  \/ BeforeUnload

SpecDebounce == InitDebounce /\ [][NextDebounce]_vars

FairDebounce == SpecDebounce /\ WF_vars(DebounceTimerFire) /\ WF_vars(BeforeUnload)

\* ------------------------------------------------------ outbound claims
InStore(memo) ==
  \E k \in StoreKeys : \E i \in DOMAIN memoStore[k] : memoStore[k][i] = memo
IdUnder(url, s, memoId) ==
  \E i \in DOMAIN memoStore[normalizeUrl(url, s.removeQueryParams)] :
    memoStore[normalizeUrl(url, s.removeQueryParams)][i].id = memoId
Returned == outCall.stage \in {"resolved", "rejected"}
ViaCoordinator == outCall.api \in BroadcastApis
\* the local write of the call is in storage
Persisted ==
  IF outCall.api = "broadcastMemoDelete" THEN ~IdUnder(currentUrl, settings, outCall.memo.id)
  ELSE InStore(outCall.memo)

\* C12: when a broadcast* call hands its message to the transport, or ends
\* after its write without handing it to anyone (no open link, or every send
\* threw), its local write has succeeded and is in storage.
C12_PersistedBeforeBroadcast ==
  [][(outCall' # outCall /\ ViaCoordinator' /\ (outCall'.handed # {} \/ outCall'.write = "ok"))
       => (outCall'.write = "ok" /\ outCall'.stage = "resolved" /\ Persisted')]_vars

\* the only open link's send threw: nothing handed over, the memo is stored
C12_Witness ==
  /\ outCall.api = "broadcastMemoCreate" /\ outCall.stage = "resolved" /\ outCall.write = "ok"
  /\ outCall.targets # {} /\ outCall.handed = {}
  /\ InStore(outCall.memo)

\* C13: a broadcastMemoCreate made while no peer link exists, and whose
\* storage does not fail, completes successfully with the memo in storage.
C13_NoPeersStillPersists ==
  (outCall.api = "broadcastMemoCreate" /\ Returned /\ outCall.write # "failed" /\ conns = <<>>)
    => (outCall.stage = "resolved" /\ InStore(outCall.memo))

\* C14: once MemoManager.saveMemo has returned, and storage did not fail, the
\* memo is in local storage, in every coordinator state.
C14_SavedMemoIsStored ==
  (outCall.by = "MemoManager" /\ outCall.api \in {"broadcastMemoCreate", "broadcastMemoUpdate", "saveMemo"}
   /\ Returned /\ outCall.write # "failed")
    => InStore(outCall.memo)

\* C15: a broadcast* call whose storage write failed has rejected and has
\* handed no message to the transport.
C15_WriteFailureRejects ==
  (ViaCoordinator /\ outCall.write = "failed") =>
    (outCall.stage = "rejected" /\ outCall.handed = {})

C15_Witness ==
  /\ outCall.api = "broadcastMemoUpdate" /\ outCall.write = "failed"
  /\ outCall.stage = "rejected"
  /\ broadcastTargets(connections, conns) # {}

\* ------------------------------------------------ remote entities claim
OnlyLocal ==
  \A k \in StoreKeys : \A i \in DOMAIN memoStore[k] :
    memoStore[k][i].ownerId = NoOwner /\ memoStore[k][i].id \in LocalIds

Unlinked(p) == OpenLinks(p) = {} /\ Connecting(p, "out") = {} /\ Connecting(p, "in") = {}
LoopOver == peer = "open" /\ initPc = "done" /\ driver.stage = "done"

\* C17: as long as a desired peer that this side dials stays unlinked, retries
\* go on: a new attempt (or a link) follows.
C17_RetriesContinue ==
  [](\A p \in RemotePeers :
       (StrLess(LocalId, p) /\ InSeq(SharedPeers, p) /\ LoopOver /\ Unlinked(p))
         => <>(~Unlinked(p)))

\* C18: a desired peer with a lower identity from which no link has come in is
\* eventually dialled by this side, so that a link is under way or open.
C18_WaitingSideFallsBack ==
  \A p \in RemotePeers :
    (StrLess(p, LocalId) /\ InSeq(SharedPeers, p) /\ LoopOver /\ ConnsOf(p) = {})
      ~> (Connecting(p, "out") # {} \/ OpenLinks(p) # {})

\* ------------------------------------------------------ transport claims
\* C20: sendTo returns true exactly when the message was handed to an open
\* channel (relay transport).
C20_SendToTellsHandOff ==
  relay.call.api = "sendTo" => (relay.call.returned = "true" <=> relay.call.handed)

\* C21: after disconnect() the relay transport is torn down (no socket, no
\* reconnect pending, isConnected false) and every later call fails cleanly:
\* nothing is handed over, sendTo returns false, connect rejects.
C21_FailsCleanlyAfterDisconnect ==
  /\ relay.torn => (relay.ws = "null" /\ ~relay.timer /\ ~isConnected(relay))
  /\ relay.call.torn =>
       /\ ~relay.call.handed
       /\ relay.call.api = "sendTo" => relay.call.returned = "false"
       /\ relay.call.api = "connect" => relay.call.returned = "rejected"

\* ------------------------------------------------------ identity claims
Got(ctx) ==
  /\ um.calls[ctx].op = "getUserId" /\ um.calls[ctx].pc = "returned"
  /\ ~um.calls[ctx].faulted

\* C22: with no storage fault, two getUserId calls with no reset between them
\* return the same id, and a getUserId made after a reset returns the id that
\* reset returned.
C22_IdentityStable ==
  /\ \A c1 \in Ctx, c2 \in Ctx :
       (Got(c1) /\ Got(c2) /\ um.calls[c1].epoch = um.calls[c2].epoch)
         => um.calls[c1].ret = um.calls[c2].ret
  /\ \A c \in Ctx :
       (Got(c) /\ um.calls[c].epoch = um.resets /\ um.resets > 0)
         => um.calls[c].ret = um.lastReset

\* C23: a getUserId call that met a storage failure rejects, and the
\* coordinator is never started with an id obtained from such a call.
C23_IdentityFaultPropagates ==
  /\ \A c \in Ctx :
       (um.calls[c].op = "getUserId" /\ um.calls[c].faulted) => um.calls[c].pc = "rejected"
  /\ um.boot.id # NoId => ~um.boot.faulted

\* ------------------------------------------------------- startup claims
Outbound == {c \in DOMAIN conns : conns[c].dir = "out"}

\* C24: an outbound connection exists only once the transport has opened and
\* initialize has resolved; after a rejected initialize there is none.
C24_NoConnectBeforeInitialize ==
  Outbound # {} => (peer = "open" /\ initPc = "done")

C24_Witness ==
  \E c \in Outbound : conns[c].st = "connecting" /\ conns[c].promise = "pending"

Attempted(p) == \E c \in ConnsOf(p) : conns[c].dir = "out"
Dialled == {p \in AllPeers : InSeq(SharedPeers, p) /\ StrLess(LocalId, p)}

\* C25: a connect that fails leaves the transport, the coordinator's
\* settings, storage and the links of every other peer as they were, and the
\* peer loop does not end before every peer this side dials has been tried.
C25_ConnectFailureContained ==
  [][/\ LoopOver' => \A p \in Dialled : Attempted(p)'
     /\ \A c \in DOMAIN conns :
          (conns[c].promise = "pending" /\ conns'[c].promise = "rejected")
            => /\ peer' = peer /\ initPc' = initPc /\ settings' = settings
               /\ memoStore' = memoStore
               /\ \A q \in AllPeers \ {conns[c].peer} : connections'[q] = connections[q]]_vars

\* both attempts to memo-ccc failed, the loop went on and memo-ddd is linked
C25_Witness ==
  /\ LoopOver
  /\ OpenLinks("memo-ccc") = {}
  /\ \E c \in ConnsOf("memo-ccc") : conns[c].promise = "rejected"
  /\ OpenLinks("memo-ddd") # {} /\ connections["memo-ddd"] # NoConn

\* ---------------------------------------------------- end-to-end claims
CreatedAtFar(m) ==
  \E i \in DOMAIN remote.events :
    remote.events[i] = Event("p2p:memo-created", [m EXCEPT !.ownerId = LocalId])

\* C26: a memo passed to broadcastMemoCreate while the link to the far
\* installation is open, with no storage failure and no send that throws, is
\* eventually emitted there as p2p:memo-created with ownerId = the sender,
\* unless the link has gone.
C26_CreateReachesPeer ==
  \A m \in OutMemos :
    (/\ outCall.api = "broadcastMemoCreate" /\ outCall.memo = m /\ Returned
     /\ FarPeer \in outCall.linked
     /\ outCall.write # "failed" /\ outCall.handed = outCall.targets)
      ~> (CreatedAtFar(m) \/ OpenLinks(FarPeer) = {})

\* C28: with the listeners registered, a remote create or an initial-sync
\* batch leaves every shared memo the manager already holds as it was (one
\* entry per id, with the content an earlier create or update installed), and
\* handling the same message once more changes nothing.
C28_DuplicateAndLateCreateTolerated ==
  (lastMsg.listening /\ Last.type \in {"memo:create", "sync:initial"}) =>
    /\ \A i \in DOMAIN sharedBefore :
         i \in DOMAIN sharedMemos /\ sharedMemos[i] = sharedBefore[i]
    /\ Dispatch(sharedMemos, lastEvents) = sharedMemos

\* a create for an id already shown with other content has been handled
C28_Witness ==
  /\ lastMsg.listening /\ Last.type = "memo:create" /\ Emitted
  /\ Last.data.id \in DOMAIN sharedBefore
  /\ sharedBefore[Last.data.id].content # Last.data.content
  /\ sharedMemos[Last.data.id].content = sharedBefore[Last.data.id].content

\* C29: the connections map holds an entry for a peer exactly when a data
\* connection to that peer is open, and getConnectedPeers returns exactly the
\* peers with an open link.
getConnectedPeers == {p \in AllPeers : Has(connections, p) /\ conns[connections[p]].st = "open"}

C29_MapMatchesOpenLinks ==
  /\ \A p \in AllPeers : Has(connections, p) <=> OpenLinks(p) # {}
  /\ getConnectedPeers = {p \in AllPeers : OpenLinks(p) # {}}

\* --------------------------------------------------- relay server claims
Registered(k) == server.socks[k].userId # "none"
InRegistry(k) == Registered(k) /\ server.clients[server.socks[k].userId] = k
Forwarded == server.last.from # NoSock

\* C27: a message is forwarded only from a registered socket, to the open
\* socket of every other identity in the registry and to no socket of the
\* sender's identity, and it carries the sender's identity, which is what the
\* receiving client hands to its data callback.
C27_RelayForwarding ==
  [][server'.sent # server.sent =>
       LET k == server'.last.from
           to == server'.last.to IN
       /\ ~Registered(k) => to = {}
       /\ \A j \in to : /\ server.socks[j].st = "open"
                        /\ server.socks[j].user # server.socks[k].user
                        /\ Len(server'.socks[j].inbox) = Len(server.socks[j].inbox) + 1
                        /\ receivedFrom(server'.socks[j].inbox[Len(server'.socks[j].inbox)])
                             = server.socks[k].user
       /\ \A j \in DOMAIN server.socks \ to : server'.socks[j].inbox = server.socks[j].inbox
       /\ Registered(k) =>
            \A j \in DOMAIN server.socks :
              (InRegistry(j) /\ server.socks[j].st = "open"
               /\ server.socks[j].user # server.socks[k].user) => j \in to]_vars

\* a forward that reached two other registered clients
C27_Witness ==
  /\ Forwarded /\ Cardinality(server.last.to) = 2

\* C30: the registration of an identity is removed only when the socket that
\* holds it closes: while that socket stays open the identity stays in the
\* registry, whatever happens to an earlier socket of the same identity.
C30_RegistryKeepsOpenSocket ==
  [][\A u \in Users :
       (server.clients[u] # NoSock /\ server'.socks[server.clients[u]].st = "open")
         => server'.clients[u] # NoSock]_vars

\* ------------------------------------------------------- storage claims
StoreCallsOver ==
  /\ Len(sm.calls) = MaxStoreCalls
  /\ \A i \in DOMAIN sm.calls : sm.calls[i].pc = "done" /\ ~sm.calls[i].readFailed

\* C31: when two StorageManager calls for different ids have both completed
\* (their reads having succeeded), every saved memo is in storage and every
\* deleted id is absent from it, however the two calls overlapped.
C31_NoLostUpdate ==
  StoreCallsOver =>
    \A i \in DOMAIN sm.calls :
      IF sm.calls[i].op = "saveMemo"
      THEN InStore(sm.calls[i].memo)
      ELSE ~IdUnder(sm.calls[i].memo.url, StoreSettings, sm.calls[i].memo.id)

\* C32: for each memo whose save was requested through debouncedSaveMemo, the
\* latest content of that memo is eventually saved.
C32_DebouncedSaveHappens ==
  \A i \in LocalIds :
    (db.requested[i] # "none") ~> (db.saved[i] = db.requested[i])

\* ------------------------------------------------ relay lifecycle claims
\* C33: after disconnect() no connection to the server is opened or under
\* way and no reconnect timer is pending, whatever the state of the socket
\* was at the time and also once the close event of that socket has come.
C33_TeardownIsFinal ==
  relay.torn => (relay.ws = "null" /\ ~relay.timer /\ relay.timers = 0)

\* disconnect() closed a socket and that socket's close event has come
C33_Witness == relay.torn /\ relay.dying = "closed"

\* C34: after an unintended close the client gets registered again unless
\* disconnect() is called; registration fires the link-open observer once
\* more; at most one reconnect timer is pending.
C34_RelaySelfHeals ==
  /\ (relay.ws = "closed" /\ ~relay.intentional) ~> (relay.registered \/ relay.intentional)
  /\ [](relay.timers <= 1)
  /\ [][(relay'.registered /\ ~relay.registered) => relay'.observed = relay.observed + 1]_vars

\* registered again after a drop, the observer having fired twice
C34_Witness ==
  relay.drops > 0 /\ relay.registered /\ ~relay.intentional /\ relay.observed >= 2

\* C35: with no reset, no clearing of storage and no storage fault, the
\* getUserId calls of the page and of the options page return the same id,
\* which is the stored one, also when both ran while no id was stored yet.
C35_FirstRunAgrees ==
  (~um.cleared /\ um.resets = 0) =>
    \A c1 \in Ctx, c2 \in Ctx :
      (Got(c1) /\ Got(c2)) =>
        (um.calls[c1].ret = um.calls[c2].ret /\ um.calls[c1].ret = um.stored)

\* ----------------------------------------------------- timed-out connect
\* C36: the connection of a connect attempt that was rejected never becomes
\* an open link: it is not entered in the connections map, the link-open
\* observer is not called for it, and no peer ends up with two open channels.
C36_TimedOutAttemptAbandoned ==
  /\ \A c \in DOMAIN conns :
       conns[c].promise = "rejected" =>
         (conns[c].st # "open" /\ conns[c].obs = "none" /\ connections[conns[c].peer] # c)
  /\ \A p \in AllPeers :
       Cardinality({c \in OpenLinks(p) : conns[c].dir = "out"}) <= 1

\* ------------------------------------------------------ configured peers
\* C37: local events are emitted only for messages whose sender is one of
\* the configured peers (settings.sharedPeers), and the shared memos shown
\* change only on such messages.
C37_OnlyConfiguredPeersEmit ==
  (lastMsg # NoneReceived /\ ~InSeq(mm.sharedPeers, lastMsg.from)) =>
    (~Emitted /\ sharedMemos = sharedBefore)

====
